---- MODULE Spec2Model ----
(***************************************************************************)
(* The editor screen of xpatch_demo_editor                                  *)
(* (src/routes/editor/[id]/+page.svelte): the throttled autosave, the       *)
(* mount sequence, the time-travel navigation, the arrow-key repeat of the  *)
(* history panel and the teardown, run on one event loop against the patch  *)
(* store reached through src/lib/api.ts.                                    *)
(*                                                                          *)
(* Every handler is one action per run-to-completion segment: a handler     *)
(* runs up to its next await, and the continuation after the await is a     *)
(* separate action taken when the store has answered.  The store (the       *)
(* Tauri backend) answers each call in a step of its own, so calls issued   *)
(* by different tasks are answered and delivered in any order.              *)
(*                                                                          *)
(* Texts are numbers: 0 is the empty string, 1..MaxContent other texts.     *)
(***************************************************************************)
EXTENDS Integers, Sequences, FiniteSets, TLC

\* ------------------------------------------------------------------ bounds
MaxContent == 1     \* texts 0..MaxContent
MaxActions == 2     \* edits, mode and navigation clicks, arrow key-downs and
                    \* interval ticks per run
MaxInitPatches == 1 \* snapshots the document holds when it is opened

\* '' (line 28: let content = $state(''))
EmptyText == 0

Contents == EmptyText..MaxContent

VARIABLES
    \* --- component state (+page.svelte lines 28-38)
    content,            \* let content = $state('')
    mode,               \* 'write' | 'preview'
    timestamps,         \* number[] held by the component
    timeTravelIndex,    \* timeTravelIndex[0]
    isTimeTravel,
    timeTravelContent,
    stats,              \* DocumentStats | null, as <<>> or <<total_patches>>
    saveTimeout,        \* "null" or "timer" (the handle of the throttle timer)
    \* --- event loop and tasks
    saveTimer,          \* TRUE while the throttle timer is pending
    savePc,             \* position of the timer callback / performSave
    saveCall,           \* the store call performSave awaits
    mountPc,            \* position of onMount
    mountCall,          \* the store call onMount awaits
    loads,              \* loadDocumentAtTimestamp calls of handleTimeTravelChange in flight
    \* --- the store behind api.ts
    store,              \* sequence of snapshots [ts, text]
    now,                \* Date.now()
    \* --- observation (history) variables
    lastOp,             \* the navigation handler called in the last step, with its argument
    nActs,              \* user actions so far
    nIssued,            \* navigation requests issued so far (the sequence number of the last)
    shownSeq,           \* sequence number of the request whose result is in timeTravelContent
    maxDone,            \* highest sequence number among the requests that resolved (0: none)
    rejSeqs,            \* sequence numbers of the requests that rejected
    lastCall,           \* the last createPatch call issued (placeholder: content
                        \* was still the initial '' of line 28, never assigned)
    nCalls,             \* the number of createPatch calls issued
    win,                \* the throttle window opened last: its number, content and
                        \* isTimeTravel when it was scheduled, the notifications it
                        \* received, and how its save ended
    patchRejected,      \* the window of the last createPatch that rejected (0: none)
    lastWriter,         \* who wrote content last (and whether isTimeTravel was set
                        \* then), who wrote timeTravelIndex last, who wrote
                        \* timestamps last, whether that write shortened it and
                        \* whether it was shorter than the store was then
    \* --- the history panel and the arrow keys (lines 36-38)
    isPopoverOpen,
    keyHoldTimeout,     \* the handle of the delay timer (NoHandle: null)
    keyHoldInterval,    \* the direction of the interval the handle names (0: null)
    delayTimers,        \* pending setTimeout callbacks of handleKeyDown, per direction
    tickers,            \* running setInterval timers, per direction
    destroyed,          \* the component has been torn down
    \* --- observation (history) variables of the keys and the teardown
    key,                \* the last key event and, since the last key-down: its
                        \* direction, the stepVersion calls of the key handlers, the
                        \* interval ticks and the direction of the last, whether
                        \* the delay timer fired, whether the key-down found a
                        \* timer armed
    atDestroy           \* the timers that were pending when onDestroy ran, and
                        \* key.steps then

vars == <<content, mode, timestamps, timeTravelIndex, isTimeTravel, timeTravelContent,
          stats, saveTimeout, saveTimer, savePc, saveCall, mountPc, mountCall, loads,
          store, now, lastOp, nActs, nIssued, shownSeq, maxDone, rejSeqs, lastCall,
          nCalls, win, patchRejected, lastWriter, isPopoverOpen, keyHoldTimeout,
          keyHoldInterval, delayTimers, tickers, destroyed, key, atDestroy>>

compVars == <<content, mode, timestamps, timeTravelIndex, isTimeTravel, timeTravelContent,
              stats>>
throttleVars == <<saveTimeout, saveTimer, win>>
saveVars == <<savePc, saveCall, lastCall, nCalls, patchRejected>>
mountVars == <<mountPc, mountCall>>
navVars == <<loads, nIssued, shownSeq, maxDone, rejSeqs>>
keyVars == <<isPopoverOpen, keyHoldTimeout, keyHoldInterval, delayTimers, tickers, key>>
lifeVars == <<destroyed, atDestroy>>
uiVars == <<keyVars, lifeVars>>

\* ------------------------------------------------------------------ store
NoCall == [op |-> "none", st |-> "none", arg |-> <<>>, val |-> <<>>]
Call(op, arg) == [op |-> op, st |-> "sent", arg |-> arg, val |-> <<>>]
Op(name, arg) == [op |-> name, arg |-> arg]
NoOp == Op("none", 0)
NoPatchCall ==
    [text |-> EmptyText, atFire |-> EmptyText, win |-> 0, sched |-> EmptyText, changes |-> 0,
     tt |-> FALSE, placeholder |-> FALSE]

\* The snapshots a document may hold when it is opened: texts 1, 2, ... at
\* timestamps 1, 2, ...
InitStore(n) == [i \in 1..n |-> [ts |-> i, text |-> ((i - 1) % MaxContent) + 1]]

\* get_patch_timestamps
StoreTimestamps(s) == [i \in 1..Len(s) |-> s[i].ts]

\* load_document_at_timestamp: the text that was active at timestamp t
StoreContentAt(s, t) ==
    LET upTo == {i \in 1..Len(s) : s[i].ts <= t}
    IN  IF upTo = {} THEN EmptyText
        ELSE s[CHOOSE i \in upTo : \A j \in upTo : j <= i].text

\* get_document_stats
StoreStats(s) == <<Len(s)>>

\* create_patch
StoreCreatePatch(s, text, t) == Append(s, [ts |-> t, text |-> text])

\* The answer of the store to call c, computed when the store serves it.
Answer(c) ==
    CASE c.op = "getPatchTimestamps" -> StoreTimestamps(store)
      [] c.op = "getDocumentStats" -> StoreStats(store)
      [] c.op = "loadDocumentAtTimestamp" -> <<StoreContentAt(store, c.arg[1])>>
      [] OTHER -> <<>>

\* The arrow keys step by -1 (ArrowLeft) or 1 (ArrowRight) (line 155).
Directions == {-1, 1}

\* keyHoldTimeout = null (line 38); a handle names the timer of one key-down
\* and stays in the variable after that timer has fired.
NoHandle == [dir |-> 0, live |-> FALSE]

\* No timer of the key handlers is pending.
NoTimers == [d \in Directions |-> 0]

NoKey == [last |-> "none", dir |-> 0, steps |-> 0, ticks |-> 0, tickDir |-> 0,
          fired |-> FALSE, tore |-> FALSE]
NoTeardown == [save |-> FALSE, delay |-> FALSE, interval |-> FALSE, steps |-> 0]

Init ==
    /\ content = EmptyText
    /\ mode = "write"
    /\ timestamps = <<>>
    /\ timeTravelIndex = 0
    /\ isTimeTravel = FALSE
    /\ timeTravelContent = EmptyText
    /\ stats = <<>>
    /\ saveTimeout = "null"
    /\ saveTimer = FALSE
    /\ savePc = "none"
    /\ saveCall = NoCall
    /\ mountPc = "init"
    /\ mountCall = NoCall
    /\ loads = {}
    /\ \E n \in 0..MaxInitPatches : store = InitStore(n) /\ now = n
    /\ lastOp = NoOp
    /\ nActs = 0
    /\ nIssued = 0
    /\ shownSeq = 0
    /\ maxDone = 0
    /\ rejSeqs = {}
    /\ lastCall = NoPatchCall
    /\ nCalls = 0
    /\ win = [n |-> 0, sched |-> EmptyText, changes |-> 0, tt |-> FALSE, end |-> "none",
               refLen |-> -1]
    /\ patchRejected = 0
    /\ lastWriter = [content |-> "init", inTimeTravel |-> FALSE, index |-> "init",
                      timeline |-> "init", shrank |-> FALSE, stale |-> FALSE]
    /\ isPopoverOpen = FALSE
    /\ keyHoldTimeout = NoHandle
    /\ keyHoldInterval = 0
    /\ delayTimers = NoTimers
    /\ tickers = NoTimers
    /\ destroyed = FALSE
    /\ key = NoKey
    /\ atDestroy = NoTeardown


\* ------------------------------------------------------- autosave throttle

\* A handleContentChange without the test of saveTimeout: every notification
\* arms a timer.
HandleContentChangeUnthrottled ==
    /\ saveTimeout' = "timer"
    /\ saveTimer' = TRUE
    /\ win' = [n |-> win.n + 1, sched |-> content', changes |-> 1,
                tt |-> isTimeTravel', end |-> "open", refLen |-> -1]

\* handleContentChange (lines 79-89): open a throttle window unless one is pending.
HandleContentChange ==
    IF saveTimeout # "null"
    THEN /\ UNCHANGED <<saveTimeout, saveTimer>>
         /\ win' = [win EXCEPT !.changes = @ + 1]
    ELSE /\ saveTimeout' = "timer"
         /\ saveTimer' = TRUE
         /\ win' = [n |-> win.n + 1, sched |-> content', changes |-> 1,
                     tt |-> isTimeTravel', end |-> "open", refLen |-> -1]

\* The effect without its isTimeTravel test.
ContentEffectUngated == HandleContentChange

\* $effect (lines 180-184), run with the state the handler leaves.
ContentEffect ==
    IF ~isTimeTravel' THEN HandleContentChange ELSE UNCHANGED throttleVars

\* Svelte re-runs the effect after a handler that changed a signal it read:
\* isTimeTravel, and content when isTimeTravel was false; the effect is gone
\* with the component.
EffectAfter ==
    IF ~destroyed /\ (content' # content \/ isTimeTravel' # isTimeTravel)
    THEN ContentEffect
    ELSE UNCHANGED throttleVars

\* A frozen copy of content, taken when the window was scheduled.
PerformSaveContentFrozen == win.sched

\* performSave (lines 65-67): the text handed to createPatch is content, read
\* when the timer fires.
PerformSaveContent == content

\* The timer callback of handleContentChange (lines 85-86) up to the first
\* await of performSave (line 67).
SaveTimerFire ==
    /\ saveTimer
    /\ saveTimer' = FALSE
    /\ now' = now + 1
    /\ savePc' = "createPatch"
    /\ saveCall' = Call("createPatch", <<PerformSaveContent, now'>>)
    /\ lastCall' = [text |-> PerformSaveContent, atFire |-> content, win |-> win.n,
                     sched |-> win.sched, changes |-> win.changes, tt |-> isTimeTravel,
                     placeholder |-> lastWriter.content = "init"]
    /\ nCalls' = nCalls + 1
    /\ lastOp' = NoOp
    /\ UNCHANGED uiVars
    /\ UNCHANGED <<compVars, saveTimeout, win, patchRejected, mountVars, navVars,
                   store, nActs, lastWriter>>

\* performSave without the try/catch: a rejection ends the task.
AfterCreatePatchNoCatch(st) == IF st = "err" THEN "rejected" ELSE "loadTimestamps"

\* performSave (lines 66-71): the catch swallows a rejection of createPatch,
\* and loadTimestamps() follows whatever the outcome.
AfterCreatePatch(st) == "loadTimestamps"

\* createPatch answers with outcome st: on "ok" the store has appended the
\* snapshot (create_patch); performSave goes on after its await (lines 67-71, 57).
SaveAfterCreatePatch(st) ==
    /\ savePc = "createPatch"
    /\ store' = IF st = "ok"
                THEN StoreCreatePatch(store, saveCall.arg[1], saveCall.arg[2])
                ELSE store
    /\ savePc' = AfterCreatePatch(st)
    /\ saveCall' = IF savePc' = "loadTimestamps"
                   THEN Call("getPatchTimestamps", <<>>) ELSE NoCall
    /\ patchRejected' = IF st = "err" THEN win.n ELSE patchRejected
    /\ lastOp' = NoOp
    /\ UNCHANGED uiVars
    /\ UNCHANGED <<compVars, throttleVars, lastCall, nCalls, mountVars, navVars, now,
                   nActs, lastWriter>>

\* loadTimestamps inside performSave (lines 57, 71-72).
SaveAfterLoadTimestamps ==
    /\ savePc = "loadTimestamps"
    /\ saveCall.st = "ok"
    /\ timestamps' = saveCall.val
    /\ savePc' = "loadStats"
    /\ saveCall' = Call("getDocumentStats", <<>>)
    /\ win' = [win EXCEPT !.refLen = Len(saveCall.val)]
    /\ lastWriter' = [lastWriter EXCEPT !.timeline = "save",
                                        !.shrank = Len(timestamps') < Len(timestamps),
                                        !.stale = Len(timestamps') # Len(store)]
    /\ lastOp' = NoOp
    /\ UNCHANGED uiVars
    /\ UNCHANGED <<content, mode, timeTravelIndex, isTimeTravel, timeTravelContent, stats,
                   saveTimeout, saveTimer, lastCall, nCalls, patchRejected, mountVars, navVars,
                   store, now, nActs>>

\* The snap of the index without the isTimeTravel test.
SnapIndexAlways == Len(timestamps) - 1

\* performSave (lines 73-75): the index follows the newest snapshot unless
\* the user is viewing history.
SnapIndex == IF ~isTimeTravel THEN Len(timestamps) - 1 ELSE timeTravelIndex

\* loadStats inside performSave (lines 61, 72-75), then the end of the timer
\* callback (line 87).
SaveAfterLoadStats ==
    /\ savePc = "loadStats"
    /\ stats' = Answer(saveCall)
    /\ timeTravelIndex' = SnapIndex
    /\ lastWriter' = IF ~isTimeTravel THEN [lastWriter EXCEPT !.index = "save"]
                     ELSE lastWriter
    /\ saveTimeout' = "null"
    /\ savePc' = "none"
    /\ saveCall' = NoCall
    /\ lastOp' = NoOp
    /\ UNCHANGED uiVars
    /\ win' = [win EXCEPT !.end = IF isTimeTravel THEN "timeTravel" ELSE "current"]
    /\ UNCHANGED <<content, mode, timestamps, isTimeTravel, timeTravelContent, saveTimer,
                   lastCall, nCalls, patchRejected, mountVars, navVars, store, now, nActs>>

\* ------------------------------------------------------------------ mount

\* onMount (lines 40-41) up to its first await, and the first run of the
\* effect (lines 180-184) when the component is mounted.
OnMount ==
    /\ mountPc = "init"
    /\ mountPc' = "loadTimestamps"
    /\ mountCall' = Call("getPatchTimestamps", <<>>)
    /\ UNCHANGED compVars
    /\ ContentEffect
    /\ lastOp' = NoOp
    /\ UNCHANGED uiVars
    /\ UNCHANGED <<saveVars, navVars, store, now, nActs, lastWriter>>

\* onMount after loadTimestamps() (lines 41-42, 57).
MountAfterLoadTimestamps ==
    /\ mountPc = "loadTimestamps"
    /\ mountCall.st = "ok"
    /\ timestamps' = mountCall.val
    /\ mountPc' = "loadStats"
    /\ mountCall' = Call("getDocumentStats", <<>>)
    /\ lastWriter' = [lastWriter EXCEPT !.timeline = "mount",
                                        !.shrank = Len(timestamps') < Len(timestamps),
                                        !.stale = Len(timestamps') # Len(store)]
    /\ lastOp' = NoOp
    /\ UNCHANGED uiVars
    /\ UNCHANGED <<content, mode, timeTravelIndex, isTimeTravel, timeTravelContent, stats,
                   throttleVars, saveVars, navVars, store, now, nActs>>

\* onMount after loadStats() (lines 42-44, 61).
MountAfterLoadStats ==
    /\ mountPc = "loadStats"
    /\ stats' = Answer(mountCall)
    /\ IF Len(timestamps) > 0
       THEN /\ mountPc' = "loadDocument"
            /\ mountCall' = Call("loadDocumentAtTimestamp", <<now>>)
       ELSE /\ mountPc' = "done"
            /\ mountCall' = NoCall
    /\ lastOp' = NoOp
    /\ UNCHANGED uiVars
    /\ UNCHANGED <<content, mode, timestamps, timeTravelIndex, isTimeTravel,
                   timeTravelContent, throttleVars, saveVars, navVars, store, now, nActs,
                   lastWriter>>

\* onMount after loadDocumentAtTimestamp (lines 44-46); the assignment to
\* content re-runs the effect.
MountAfterLoadDocument ==
    /\ mountPc = "loadDocument"
    /\ content' = Answer(mountCall)[1]
    /\ timeTravelIndex' = Len(timestamps) - 1
    /\ mountPc' = "done"
    /\ mountCall' = NoCall
    /\ UNCHANGED <<mode, timestamps, isTimeTravel, timeTravelContent, stats>>
    /\ EffectAfter
    /\ lastWriter' = IF content' # content
                     THEN [lastWriter EXCEPT !.content = "mount",
                                             !.inTimeTravel = isTimeTravel,
                                             !.index = "mount"]
                     ELSE [lastWriter EXCEPT !.index = "mount"]
    /\ lastOp' = NoOp
    /\ UNCHANGED uiVars
    /\ UNCHANGED <<saveVars, navVars, store, now, nActs>>

\* ------------------------------------------------------------------- user

\* The history panel (lines 257-259) is rendered when the timeline is not empty.
PanelRendered == mountPc # "init" /\ ~destroyed /\ Len(timestamps) > 0

\* The textarea (lines 376-380, bind:value={content}) is rendered in write
\* mode outside time travel; typing assigns content and re-runs the effect.
Edit(v) ==
    /\ mountPc # "init"
    /\ ~destroyed
    /\ ~isTimeTravel
    /\ mode = "write"
    /\ v # content
    /\ nActs < MaxActions
    /\ content' = v
    /\ nActs' = nActs + 1
    /\ UNCHANGED <<mode, timestamps, timeTravelIndex, isTimeTravel, timeTravelContent, stats>>
    /\ EffectAfter
    /\ lastWriter' = [lastWriter EXCEPT !.content = "edit", !.inTimeTravel = isTimeTravel]
    /\ lastOp' = NoOp
    /\ UNCHANGED uiVars
    /\ UNCHANGED <<saveVars, mountVars, navVars, store, now>>

\* The Write / Preview buttons (lines 240-255).
SelectMode(m) ==
    /\ mountPc # "init"
    /\ ~destroyed
    /\ m # mode
    /\ nActs < MaxActions
    /\ nActs' = nActs + 1
    /\ mode' = m
    /\ lastOp' = NoOp
    /\ UNCHANGED uiVars
    /\ UNCHANGED <<content, timestamps, timeTravelIndex, isTimeTravel, timeTravelContent,
                   stats, throttleVars, saveVars, mountVars, navVars, store, now, lastWriter>>

\* ------------------------------------------------------------- navigation

NavNoop == UNCHANGED <<timeTravelIndex, isTimeTravel, loads, nIssued, throttleVars, lastWriter>>

\* handleTimeTravelChange (lines 91-95) up to its await: the request is
\* issued for timestamps[value[0]]; setting isTimeTravel re-runs the effect.
HandleTimeTravelChange(value) ==
    /\ timeTravelIndex' = value
    /\ isTimeTravel' = TRUE
    /\ nIssued' = nIssued + 1
    /\ loads' = loads \cup {[seq |-> nIssued + 1, ts |-> timestamps[value + 1]]}
    /\ lastWriter' = [lastWriter EXCEPT !.index = "nav"]
    /\ EffectAfter

\* jumpToVersion (lines 98-101)
JumpToVersion(index) ==
    IF index < 0 \/ index >= Len(timestamps)
    THEN NavNoop
    ELSE HandleTimeTravelChange(index)

\* A stepVersion that clamps at the ends of the timeline and fires.
StepVersionClamped(delta) ==
    LET newIndex == timeTravelIndex + delta
        clamped == IF newIndex < 0 THEN 0
                   ELSE IF newIndex >= Len(timestamps) THEN Len(timestamps) - 1
                   ELSE newIndex
    IN  JumpToVersion(clamped)

\* stepVersion (lines 103-108)
StepVersion(delta) ==
    LET newIndex == timeTravelIndex + delta
    IN  IF newIndex >= 0 /\ newIndex < Len(timestamps)
        THEN JumpToVersion(newIndex)
        ELSE NavNoop

navFrame == <<content, mode, timestamps, timeTravelContent, stats, saveVars, mountVars,
              store, now, shownSeq, maxDone, rejSeqs>>

\* The slider (lines 293-298): bind:value and onValueChange={handleTimeTravelChange},
\* with values 0..timestamps.length-1.
SliderChange(v) ==
    /\ PanelRendered
    /\ nActs < MaxActions
    /\ v # timeTravelIndex
    /\ nActs' = nActs + 1
    /\ UNCHANGED navFrame
    /\ HandleTimeTravelChange(v)
    /\ lastOp' = Op("handleTimeTravelChange", v)
    /\ UNCHANGED uiVars

\* jumpToVersion called with index (the first / last buttons, lines 307-347,
\* call it with 0 and timestamps.length-1).
Jump(index) ==
    /\ PanelRendered
    /\ nActs < MaxActions
    /\ nActs' = nActs + 1
    /\ UNCHANGED navFrame
    /\ JumpToVersion(index)
    /\ lastOp' = Op("jumpToVersion", index)
    /\ UNCHANGED uiVars

\* stepVersion called with delta (the prev / next buttons, lines 317-337, and
\* the arrow keys, lines 153-161).
Step(delta) ==
    /\ PanelRendered
    /\ nActs < MaxActions
    /\ nActs' = nActs + 1
    /\ UNCHANGED navFrame
    /\ StepVersion(delta)
    /\ lastOp' = Op("stepVersion", delta)
    /\ UNCHANGED uiVars

\* An exitTimeTravel that switches the editor to the preview.
ModeAfterExitPreview == "preview"

\* exitTimeTravel (lines 110-113) assigns isTimeTravel and timeTravelContent
\* only: the Write / Preview selection stays.
ModeAfterExit == mode

\* exitTimeTravel (lines 110-113), from the button rendered while
\* isTimeTravel (lines 351-355); clearing isTimeTravel re-runs the effect.
ExitTimeTravel ==
    /\ PanelRendered
    /\ isTimeTravel
    /\ nActs < MaxActions
    /\ nActs' = nActs + 1
    /\ isTimeTravel' = FALSE
    /\ timeTravelContent' = EmptyText
    /\ shownSeq' = 0
    /\ mode' = ModeAfterExit
    /\ UNCHANGED <<content, timestamps, timeTravelIndex, stats>>
    /\ EffectAfter
    /\ lastOp' = Op("exitTimeTravel", 0)
    /\ UNCHANGED uiVars
    /\ UNCHANGED <<saveVars, mountVars, loads, nIssued, maxDone, rejSeqs, store, now,
                   lastWriter>>

\* What timeTravelContent holds after a rejection, were it cleared.
OnLoadRejectedCleared == EmptyText

\* handleTimeTravelChange (line 95) when the awaited call rejects: the
\* assignment is not performed.
OnLoadRejected == timeTravelContent

\* handleTimeTravelChange (line 95) after the await: the result
\* (load_document_at_timestamp) is assigned to timeTravelContent.
LoadResolved(r) ==
    /\ timeTravelContent' = StoreContentAt(store, r.ts)
    /\ loads' = loads \ {r}
    /\ shownSeq' = r.seq
    /\ maxDone' = IF r.seq > maxDone THEN r.seq ELSE maxDone
    /\ lastOp' = NoOp
    /\ UNCHANGED uiVars
    /\ UNCHANGED <<content, mode, timestamps, timeTravelIndex, isTimeTravel, stats,
                   throttleVars, saveVars, mountVars, nIssued, rejSeqs, store, now, nActs,
                   lastWriter>>

\* handleTimeTravelChange (line 95) when the awaited call rejects.
LoadRejected(r) ==
    /\ timeTravelContent' = OnLoadRejected
    /\ loads' = loads \ {r}
    /\ rejSeqs' = rejSeqs \cup {r.seq}
    /\ lastOp' = NoOp
    /\ UNCHANGED uiVars
    /\ UNCHANGED <<content, mode, timestamps, timeTravelIndex, isTimeTravel, stats,
                   throttleVars, saveVars, mountVars, nIssued, shownSeq, maxDone, store,
                   now, nActs, lastWriter>>

\* ----------------------------------------------- history panel and key repeat

\* clearTimeout(keyHoldTimeout): the timer the handle names is removed if it
\* is still pending (lines 148-151, 173-176, 197-200, 53).
ClearedDelay ==
    IF keyHoldTimeout.live
    THEN [delayTimers EXCEPT ![keyHoldTimeout.dir] = @ - 1]
    ELSE delayTimers

\* clearInterval(keyHoldInterval) (lines 144-147, 169-172, 193-196, 52).
ClearedTickers ==
    IF keyHoldInterval # 0
    THEN [tickers EXCEPT ![keyHoldInterval] = @ - 1]
    ELSE tickers

\* A handleKeyDown that arms without tearing down what is armed.
KeyDownTimersKept == [delay |-> delayTimers, interval |-> tickers]

\* handleKeyDown (lines 143-151): the timers left after the teardown.
KeyDownTimers == [delay |-> ClearedDelay, interval |-> ClearedTickers]

\* A handleKeyDown that starts the interval at once, without the delay timer.
ArmKeyHoldNoDelay(t, direction) ==
    [delay |-> t.delay, interval |-> [t.interval EXCEPT ![direction] = @ + 1]]

\* handleKeyDown (lines 159-163): the delay timer is armed; the interval is
\* started by its callback.
ArmKeyHold(t, direction) ==
    [delay |-> [t.delay EXCEPT ![direction] = @ + 1], interval |-> t.interval]

\* A key-down of an arrow key.  The listeners are attached while the panel
\* is open (lines 187-190) and handleKeyDown returns when it is not (line
\* 138); otherwise handleKeyDown (lines 140-164) runs: teardown, one
\* stepVersion(direction), and the delay timer.
KeyDown(direction) ==
    /\ mountPc # "init"
    /\ ~destroyed
    /\ IF ~isPopoverOpen
       THEN /\ key' = [key EXCEPT !.last = "ignored"]
            /\ lastOp' = NoOp
            /\ UNCHANGED <<compVars, throttleVars, saveVars, mountVars, navVars, store, now,
                           nActs, lastWriter, isPopoverOpen, keyHoldTimeout,
                           keyHoldInterval, delayTimers, tickers, lifeVars>>
       ELSE /\ nActs < MaxActions
            /\ nActs' = nActs + 1
            /\ UNCHANGED navFrame
            /\ StepVersion(direction)
            /\ lastOp' = Op("stepVersion", direction)
            /\ keyHoldInterval' = 0
            /\ keyHoldTimeout' = [dir |-> direction, live |-> TRUE]
            /\ delayTimers' = ArmKeyHold(KeyDownTimers, direction).delay
            /\ tickers' = ArmKeyHold(KeyDownTimers, direction).interval
            /\ key' = [last |-> "down", dir |-> direction, steps |-> 1, ticks |-> 0,
                        tickDir |-> 0, fired |-> FALSE,
                        tore |-> keyHoldTimeout.live \/ keyHoldInterval # 0]
            /\ UNCHANGED <<isPopoverOpen, lifeVars>>

\* The callback of the delay timer (lines 159-163): the interval is started
\* and its handle kept in keyHoldInterval.
DelayFire(direction) ==
    /\ delayTimers[direction] > 0
    /\ delayTimers' = [delayTimers EXCEPT ![direction] = @ - 1]
    /\ keyHoldTimeout' = IF keyHoldTimeout.dir = direction
                         THEN [keyHoldTimeout EXCEPT !.live = FALSE]
                         ELSE keyHoldTimeout
    /\ keyHoldInterval' = direction
    /\ tickers' = [tickers EXCEPT ![direction] = @ + 1]
    /\ key' = [key EXCEPT !.last = "fire", !.fired = TRUE]
    /\ lastOp' = NoOp
    /\ UNCHANGED <<compVars, throttleVars, saveVars, mountVars, navVars, store, now, nActs,
                   lastWriter, isPopoverOpen, lifeVars>>

\* One tick of the interval (lines 160-162): stepVersion(direction).
IntervalTick(direction) ==
    /\ tickers[direction] > 0
    /\ nActs < MaxActions
    /\ nActs' = nActs + 1
    /\ UNCHANGED navFrame
    /\ StepVersion(direction)
    /\ lastOp' = Op("stepVersion", direction)
    /\ key' = [key EXCEPT !.last = "tick", !.steps = @ + 1, !.ticks = @ + 1,
                           !.tickDir = direction]
    /\ UNCHANGED <<isPopoverOpen, keyHoldTimeout, keyHoldInterval, delayTimers, tickers,
                   lifeVars>>

\* A handleKeyUp that cancels the interval only.
KeyUpTimersIntervalOnly == [delay |-> delayTimers, interval |-> ClearedTickers]

\* handleKeyUp (lines 169-176): both timers are cancelled.
KeyUpTimers == [delay |-> ClearedDelay, interval |-> ClearedTickers]

\* A key-up of an arrow key while the listeners are attached: handleKeyUp
\* (lines 167-178).
KeyUp ==
    /\ ~destroyed
    /\ isPopoverOpen
    /\ key.last \in {"down", "fire", "tick", "ignored"}
    /\ delayTimers' = KeyUpTimers.delay
    /\ tickers' = KeyUpTimers.interval
    /\ keyHoldTimeout' = NoHandle
    /\ keyHoldInterval' = 0
    /\ key' = [key EXCEPT !.last = "up"]
    /\ lastOp' = NoOp
    /\ UNCHANGED <<compVars, throttleVars, saveVars, mountVars, navVars, store, now, nActs,
                   lastWriter, isPopoverOpen, lifeVars>>

\* The history panel is opened (lines 257-259, bind:open={isPopoverOpen});
\* the effect (lines 186-189) attaches the key listeners.
OpenPopover ==
    /\ PanelRendered
    /\ ~isPopoverOpen
    /\ isPopoverOpen' = TRUE
    /\ lastOp' = NoOp
    /\ UNCHANGED <<compVars, throttleVars, saveVars, mountVars, navVars, store, now, nActs,
                   lastWriter, keyHoldTimeout, keyHoldInterval, delayTimers, tickers, key,
                   lifeVars>>

\* The history panel is closed; the effect (lines 190-201) detaches the
\* listeners and cancels both timers.
ClosePopover ==
    /\ PanelRendered
    /\ isPopoverOpen
    /\ isPopoverOpen' = FALSE
    /\ delayTimers' = ClearedDelay
    /\ tickers' = ClearedTickers
    /\ keyHoldTimeout' = NoHandle
    /\ keyHoldInterval' = 0
    /\ key' = [key EXCEPT !.last = "close"]
    /\ lastOp' = NoOp
    /\ UNCHANGED <<compVars, throttleVars, saveVars, mountVars, navVars, store, now, nActs,
                   lastWriter, lifeVars>>

\* ---------------------------------------------------------------- teardown

\* An onDestroy that cancels the throttle timer only.
TeardownSaveTimerOnly ==
    [save |-> IF saveTimeout # "null" THEN FALSE ELSE saveTimer,
     delay |-> delayTimers, interval |-> tickers]

\* onDestroy (lines 50-54): the timers left pending.
Teardown ==
    [save |-> IF saveTimeout # "null" THEN FALSE ELSE saveTimer,
     delay |-> ClearedDelay, interval |-> ClearedTickers]

\* The component is destroyed: onDestroy (lines 50-54) runs, and the effects
\* and listeners go with the component (lines 203-206); the handles are
\* not reset.
OnDestroy ==
    /\ mountPc # "init"
    /\ ~destroyed
    /\ destroyed' = TRUE
    /\ atDestroy' = [save |-> saveTimer, delay |-> keyHoldTimeout.live,
                      interval |-> keyHoldInterval # 0, steps |-> key.steps]
    /\ saveTimer' = Teardown.save
    /\ delayTimers' = Teardown.delay
    /\ tickers' = Teardown.interval
    /\ keyHoldTimeout' = [keyHoldTimeout EXCEPT !.live = FALSE]
    /\ lastOp' = NoOp
    /\ UNCHANGED <<compVars, saveTimeout, win, saveVars, mountVars, navVars, store, now,
                   nActs, lastWriter, isPopoverOpen, keyHoldInterval, key>>

\* ------------------------------------------- rejected reads of performSave

\* getPatchTimestamps or getDocumentStats rejects inside performSave (lines
\* 57, 61, 71-72): neither await is inside the try, so the rejection leaves
\* performSave and the timer callback (line 86); line 87 is not reached and
\* saveTimeout keeps the handle of the timer that fired.
SaveReadRejected ==
    /\ \/ savePc = "loadTimestamps" /\ saveCall.st = "sent"
       \/ savePc = "loadStats"
    /\ savePc' = "none"
    /\ saveCall' = NoCall
    /\ win' = [win EXCEPT !.end = "rejected"]
    /\ lastOp' = NoOp
    /\ UNCHANGED uiVars
    /\ UNCHANGED <<compVars, saveTimeout, saveTimer, lastCall, nCalls, patchRejected,
                   mountVars, navVars, store, now, nActs, lastWriter>>

\* ------------------------------------------------------ the store answers

storeFrame == <<compVars, throttleVars, savePc, lastCall, nCalls, patchRejected, mountPc,
                navVars, store, now, nActs, lastWriter>>

\* get_patch_timestamps answers performSave; the answer is delivered later.
ServeSaveTimestamps ==
    /\ saveCall.op = "getPatchTimestamps" /\ saveCall.st = "sent"
    /\ saveCall' = [saveCall EXCEPT !.st = "ok", !.val = Answer(saveCall)]
    /\ lastOp' = NoOp
    /\ UNCHANGED uiVars
    /\ UNCHANGED <<storeFrame, mountCall>>

\* get_patch_timestamps answers onMount; the answer is delivered later.
ServeMountTimestamps ==
    /\ mountCall.op = "getPatchTimestamps" /\ mountCall.st = "sent"
    /\ mountCall' = [mountCall EXCEPT !.st = "ok", !.val = Answer(mountCall)]
    /\ lastOp' = NoOp
    /\ UNCHANGED uiVars
    /\ UNCHANGED <<storeFrame, saveCall>>

\* ------------------------------------------------------------ specification

Next ==
    \/ OnMount
    \/ MountAfterLoadTimestamps
    \/ MountAfterLoadStats
    \/ MountAfterLoadDocument
    \/ \E v \in Contents : Edit(v)
    \/ \E m \in {"write", "preview"} : SelectMode(m)
    \/ SaveTimerFire
    \/ SaveAfterCreatePatch("ok")
    \/ SaveAfterCreatePatch("err")
    \/ SaveAfterLoadTimestamps
    \/ SaveAfterLoadStats
    \/ \E v \in 0..(Len(timestamps) - 1) : SliderChange(v)
    \/ \E i \in -1..Len(timestamps) : Jump(i)
    \/ \E d \in {-1, 1} : Step(d)
    \/ ExitTimeTravel
    \/ \E r \in loads : LoadResolved(r)
    \/ \E r \in loads : LoadRejected(r)
    \/ ServeSaveTimestamps
    \/ ServeMountTimestamps

Spec == Init /\ [][Next]_vars

\* The editor with the history panel's arrow keys and the teardown of the
\* component: the user navigates with the arrow keys and does not type (a
\* key-down may come again while the key is held: the keyboard's own
\* repeat); the save is the one of the window opened at mount, every save
\* succeeds and every load resolves.
KeyNext ==
    \/ OnMount
    \/ MountAfterLoadTimestamps
    \/ MountAfterLoadStats
    \/ MountAfterLoadDocument
    \/ SaveTimerFire
    \/ SaveAfterCreatePatch("ok")
    \/ SaveAfterLoadTimestamps
    \/ SaveAfterLoadStats
    \/ \E r \in loads : LoadResolved(r)
    \/ ServeSaveTimestamps
    \/ ServeMountTimestamps
    \/ \E d \in Directions : KeyDown(d)
    \/ \E d \in Directions : DelayFire(d)
    \/ \E d \in Directions : IntervalTick(d)
    \/ KeyUp
    \/ OpenPopover
    \/ ClosePopover
    \/ OnDestroy

KeySpec == Init /\ [][KeyNext]_vars

\* The editor with a store whose reads may reject inside performSave.
RejectNext ==
    \/ Next
    \/ SaveReadRejected

RejectSpec == Init /\ [][RejectNext]_vars

\* ------------------------------------------------------------------ claims

\* The timestamp the index points at is one of the timeline.
IndexInTimeline == timeTravelIndex + 1 \in DOMAIN timestamps

\* Nothing is scheduled, running or in flight.
Quiescent == mountPc = "done" /\ ~saveTimer /\ savePc = "none" /\ loads = {}

\* C1: whatever the order in which the loadDocumentAtTimestamp calls complete,
\* the result held by timeTravelContent is the one of the latest-issued
\* request among those that have completed.
C1_ShownIsLatestIssuedCompleted == shownSeq # 0 => shownSeq = maxDone

\* C2: in TimeTravel, once every issued loadDocumentAtTimestamp call has
\* completed successfully, timeTravelContent is the text of the store at
\* timestamps[timeTravelIndex[0]], the position requested last.
C2_SettledShowsRequestedPosition ==
    (/\ isTimeTravel
     /\ loads = {}
     /\ rejSeqs = {}
     /\ lastWriter.index = "nav"
     /\ IndexInTimeline)
    => timeTravelContent = StoreContentAt(store, timestamps[timeTravelIndex + 1])

\* C3: the notifications received while one throttle window is pending lead
\* to exactly one createPatch call for that window (the k-th call belongs to
\* the k-th window, and a window that has not fired has no call), and the text
\* of the call is the value of content when the timer fired.
C3_OneSavePerWindowWithContentAtFire ==
    /\ nCalls = win.n - (IF saveTimer THEN 1 ELSE 0)
    /\ lastCall.win = nCalls
    /\ nCalls > 0 => lastCall.text = lastCall.atFire

\* C3 witness: a window that received a second notification has fired, and
\* the text it saved is not the one it was scheduled with.
C3_Witness ==
    /\ nCalls > 0
    /\ lastCall.changes >= 2
    /\ lastCall.text # lastCall.sched

\* C4: when the user has stopped editing and every timer and store call has
\* completed without failure, the text of the last createPatch call is the
\* current content.
C4_QuiescentLastSaveIsCurrent ==
    (/\ Quiescent
     /\ lastWriter.content = "edit"
     /\ patchRejected = 0
     /\ rejSeqs = {})
    => (nCalls > 0 /\ lastCall.text = content)

\* C5 (as claimed): no createPatch call is issued while isTimeTravel is true.
C5_NoCreatePatchInTimeTravel == nCalls > 0 => ~lastCall.tt

\* C5 (amended): no throttle window is opened while isTimeTravel is true; a
\* window opened before the switch to TimeTravel still fires in TimeTravel.
C5_NoWindowOpenedInTimeTravel == win.n > 0 => ~win.tt

\* C5 witness: a window scheduled outside TimeTravel has fired, and issued
\* its createPatch call, while isTimeTravel was true.
C5_Witness == nCalls > 0 /\ lastCall.tt /\ lastCall.win = win.n /\ ~win.tt

\* C6: a change of content while TimeTravel is active opens no throttle
\* window (saveTimeout and the timer stay as they were) and issues no
\* createPatch call.
C6_EditInTimeTravelIgnored ==
    [][(isTimeTravel /\ content' # content)
       => (/\ saveTimeout' = saveTimeout
           /\ saveTimer' = saveTimer
           /\ nCalls' = nCalls
           /\ savePc' = savePc)]_vars

\* C6 witness: content was written while isTimeTravel was set and no window
\* was pending, and none is pending after it.
C6_Witness ==
    /\ isTimeTravel
    /\ lastWriter.inTimeTravel
    /\ content # EmptyText
    /\ saveTimeout = "null"

\* The save of the window whose createPatch rejected is refreshing the
\* timeline or the stats with the flag still set, or has ended with the flag
\* cleared.
RejectedSaveGoesOn ==
    (patchRejected > 0 /\ patchRejected = win.n)
    => \/ savePc \in {"loadTimestamps", "loadStats"} /\ saveTimeout = "timer"
       \/ savePc = "none" /\ saveTimeout = "null"

\* C7: a rejection of createPatch is swallowed: the timeline refresh is
\* issued next, the save ends with saveTimeout cleared, and after it a change
\* of content opens a fresh window whose timer issues a new createPatch call.
C7_RejectedCreatePatchSwallowed ==
    /\ []RejectedSaveGoesOn
    /\ [][patchRejected' # patchRejected
          => savePc' = "loadTimestamps" /\ saveCall' = Call("getPatchTimestamps", <<>>)]_vars
    /\ [][(patchRejected > 0 /\ saveTimeout = "null" /\ ~isTimeTravel' /\ content' # content)
          => (saveTimeout' = "timer" /\ saveTimer' /\ win'.n = win.n + 1)]_vars
    /\ [][(saveTimer /\ savePc' = "createPatch")
          => (nCalls' = nCalls + 1 /\ saveCall'.op = "createPatch")]_vars

\* C7 witness: after a createPatch call rejected, a later window has fired
\* and issued its own createPatch call.
C7_Witness == patchRejected > 0 /\ lastCall.win > patchRejected

\* C8: a rejection of loadDocumentAtTimestamp leaves timeTravelContent, the
\* index and the mode as they were, and a request that resolves after a
\* rejection is applied as any other.
C8_RejectedLoadNotApplied ==
    /\ [][rejSeqs' # rejSeqs
          => (/\ timeTravelContent' = timeTravelContent
              /\ shownSeq' = shownSeq
              /\ timeTravelIndex' = timeTravelIndex
              /\ isTimeTravel' = isTimeTravel)]_vars
    /\ [][\A r \in loads \ loads' :
            (rejSeqs # {} /\ rejSeqs' = rejSeqs)
            => (timeTravelContent' = StoreContentAt(store, r.ts) /\ shownSeq' = r.seq)]_vars

\* C8 witness: a request rejected while a text was displayed, and a request
\* issued after it has been applied.
C8_Witness ==
    /\ \E q \in rejSeqs : shownSeq > q
    /\ timeTravelContent # EmptyText

\* The call of the last step is a stepVersion or jumpToVersion that leaves
\* the timeline: stepVersion(-1) at index 0, stepVersion(+1) at the last
\* index, jumpToVersion(i) with i outside 0..timestamps.length-1.
OutOfRangeCall ==
    \/ lastOp' = Op("stepVersion", -1) /\ timeTravelIndex = 0
    \/ lastOp' = Op("stepVersion", 1) /\ timeTravelIndex = Len(timestamps) - 1
    \/ /\ lastOp'.op = "jumpToVersion"
       /\ (lastOp'.arg < 0 \/ lastOp'.arg >= Len(timestamps))

\* C9: stepVersion and jumpToVersion out of the timeline change neither the
\* index nor the mode, and issue no loadDocumentAtTimestamp request.
C9_OutOfRangeNavigationNoop ==
    [][OutOfRangeCall
       => UNCHANGED <<timeTravelIndex, isTimeTravel, loads, nIssued, timeTravelContent,
                      timestamps, saveTimeout, saveTimer>>]_vars

\* C9 witness: stepVersion(-1) was called at index 0 and no request has ever
\* been issued.
C9_Witness ==
    /\ lastOp = Op("stepVersion", -1)
    /\ timeTravelIndex = 0
    /\ nIssued = 0
    /\ ~isTimeTravel

\* C10: while isTimeTravel stays true, no step of a save cycle moves the
\* index: only a navigation action (which issues a request), exitTimeTravel
\* (which clears isTimeTravel) or the last step of onMount writes it.
C10_SaveKeepsIndexInTimeTravel ==
    [][(isTimeTravel /\ isTimeTravel' /\ nIssued' = nIssued /\ mountPc' = mountPc)
       => timeTravelIndex' = timeTravelIndex]_vars

\* C10 witness: a save whose createPatch was issued before TimeTravel was
\* entered has ended in TimeTravel, the timeline has grown past the index,
\* and the index is still the one the navigation action set.
C10_Witness ==
    /\ isTimeTravel
    /\ win.end = "timeTravel"
    /\ lastCall.win = win.n /\ ~lastCall.tt
    /\ lastWriter.index = "nav"
    /\ timeTravelIndex < Len(timestamps) - 1


\* C11: after exitTimeTravel() the index is the last position of the timeline
\* held then (snapshots appended while in TimeTravel included), so that a
\* stepVersion(-1) that follows moves to length-2.
C11_ExitSnapsIndexToLatest ==
    lastOp = Op("exitTimeTravel", 0) => timeTravelIndex = Len(timestamps) - 1

\* C12: when a save cycle ends outside TimeTravel, the index is length-1 of
\* the timeline its own getPatchTimestamps call (issued after createPatch
\* completed) delivered.
C12_SnapUsesRefreshedTimeline ==
    (win.end = "current" /\ lastWriter.index = "save")
    => timeTravelIndex = win.refLen - 1

\* C13: whenever the timeline held is not empty, timeTravelIndex[0] is one of
\* its positions 0..timestamps.length-1 (never -1), whatever the order of
\* mount, save cycles, refreshes and navigation.
C13_IndexWithinTimeline ==
    Len(timestamps) > 0 => timeTravelIndex \in 0..(Len(timestamps) - 1)

\* Timers of the key handlers that are pending or running.
ArmedDelays == delayTimers[-1] + delayTimers[1]
ArmedIntervals == tickers[-1] + tickers[1]

\* C14: a key-down with the panel open makes exactly one stepVersion call at
\* once; while its delay timer is pending no further call of the key handlers
\* is made and no interval runs; an interval tick happens only after the delay
\* timer has fired, and from then each tick makes exactly one stepVersion
\* call in the direction of the key (the 300 ms and 50 ms are the order of
\* the timer events).
C14_KeyRepeatTiming ==
    /\ keyHoldTimeout.live
       => (key.last = "down" /\ key.steps = 1 /\ key.ticks = 0 /\ ArmedIntervals = 0)
    /\ key.ticks > 0 => key.fired
    /\ (key.last \in {"fire", "tick"} /\ ~destroyed)
       => (key.steps = 1 + key.ticks /\ tickers[key.dir] = 1 /\ ArmedDelays = 0)
    /\ key.ticks > 0 => key.tickDir = key.dir

\* The interval has ticked after the immediate step of a key-down, and a
\* navigation request was issued.
C14_Witness == key.last = "tick" /\ key.steps = 2 /\ nIssued >= 1 /\ isTimeTravel

\* C15: after a key-up, after the panel closed, and after a key-down that
\* came while the panel was closed, neither the delay timer nor the interval
\* is armed and both handles are null, so that no key-repeat step happens
\* until the next key-down with the panel open; nothing is armed while the
\* panel is closed.
C15_KeyUpOrCloseCancels ==
    /\ key.last \in {"none", "up", "close", "ignored"}
       => (/\ ArmedDelays = 0 /\ ArmedIntervals = 0
           /\ keyHoldTimeout = NoHandle /\ keyHoldInterval = 0)
    /\ ~isPopoverOpen => (ArmedDelays = 0 /\ ArmedIntervals = 0)

\* A key-up came while the interval was running.
C15_Witness == key.last = "up" /\ key.fired /\ key.ticks > 0

\* C16: at most one delay timer and at most one interval are armed, never a
\* delay timer and an interval of different directions, and an armed timer is
\* the one its handle names: a key-down tears down what is armed before it
\* arms.
C16_OneTimerAtMost ==
    /\ ArmedDelays <= 1
    /\ ArmedIntervals <= 1
    /\ \A d \in Directions : delayTimers[d] > 0 => tickers[-d] = 0
    /\ \A d \in Directions :
          /\ delayTimers[d] > 0 => keyHoldTimeout = [dir |-> d, live |-> TRUE]
          /\ tickers[d] > 0 => keyHoldInterval = d

\* A key-down came while a timer of the previous key-down was armed.
C16_Witness == key.last = "down" /\ key.tore /\ ArmedDelays = 1

\* C17: after onDestroy no timer of the component is pending: a throttle
\* window that was pending then leads to no createPatch call, and the key
\* handlers make no further stepVersion call.
C17_NoTimerAfterDestroy ==
    destroyed
    => (/\ ~saveTimer /\ ArmedDelays = 0 /\ ArmedIntervals = 0
        /\ atDestroy.save => (savePc = "none" /\ nCalls = win.n - 1)
        /\ key.steps = atDestroy.steps)

\* The component was destroyed while a throttle window was pending and the
\* key-repeat interval was running.
C17_Witness == destroyed /\ atDestroy.save /\ atDestroy.interval

\* C18: at most one save is pending or in flight: a pending throttle timer
\* excludes a running performSave, saveTimeout is held from the arming of the
\* timer to the end of performSave, and the call performSave awaits is the one
\* of the window opened last.
C18_OneSaveAtATime ==
    /\ saveTimer => (savePc = "none" /\ saveTimeout = "timer")
    /\ savePc # "none" => (saveTimeout = "timer" /\ ~saveTimer /\ lastCall.win = win.n)
    /\ savePc = "createPatch" <=> saveCall.op = "createPatch"

\* A notification arrived while performSave was running, and armed nothing.
C18_Witness == savePc # "none" /\ lastCall.win = win.n /\ win.changes > lastCall.changes

\* The timeline held is strictly increasing.
StrictlyIncreasing(seq) == \A i, j \in DOMAIN seq : i < j => seq[i] < seq[j]

\* C19: for a document opened with no snapshot, the timeline held after each
\* completed refresh is strictly increasing, as long as the number of
\* successful createPatch calls so far, and not shorter than the one held
\* before.
C19_TimelineGrowsWithSaves ==
    (now = nCalls /\ lastWriter.timeline # "init")
    => (/\ StrictlyIncreasing(timestamps)
        /\ ~lastWriter.stale
        /\ ~lastWriter.shrank)

\* The names of the navigation handlers.
NavigationOps == {"handleTimeTravelChange", "jumpToVersion", "stepVersion"}

C21_ExitDiscardsHistoryContent == ~isTimeTravel => timeTravelContent = EmptyText

\* C22: the pending flag is held only while its timer is pending or its
\* performSave is running, whatever the outcome of the store calls: the
\* throttler is never left with saveTimeout set and nothing that will reset
\* it, a state in which no edit can open a window.
C22_PendingFlagAlwaysCleared ==
    saveTimeout # "null" => (saveTimer \/ savePc # "none")

\* The document held snapshots when it was opened (now counts them and the
\* createPatch calls).
OpenedWithSnapshots == now > nCalls

\* C23: for a document opened with existing snapshots, no createPatch call
\* carries the placeholder content, the initial '' that neither the load of
\* onMount nor the user has replaced yet.
C23_NoPlaceholderSaved ==
    (OpenedWithSnapshots /\ nCalls > 0) => ~lastCall.placeholder

\* C24: a throttle window is opened only by a content mutation: as long as
\* the user has not typed no window has been opened (so no createPatch call
\* is made for an editor that was only opened), and exitTimeTravel() opens
\* no window.
C24_WindowOnlyByEdit ==
    /\ lastWriter.content # "edit" => (win.n = 0 /\ nCalls = 0)
    /\ lastOp = Op("exitTimeTravel", 0) => ~(saveTimer /\ win.changes = 1)
====
